---- MODULE Spec2Model ----
(***************************************************************************)
(* Model of the OpenClaw "responses" provider for the AI SDK                *)
(* (src/src/openclaw-provider.ts).  The file holds two copies of the        *)
(* language model: the plain one (lines 59-710) and the typed one (lines    *)
(* 728-1454).  The variable `variant` says which copy a call runs.          *)
(*                                                                         *)
(* Strings that are only compared are TLA+ strings; texts that are          *)
(* concatenated or joined are sequences of one-character strings.           *)
(* An optional value (undefined / null) is a sequence of length 0 or 1.     *)
(***************************************************************************)
EXTENDS Integers, Sequences, FiniteSets, TLC

VARIABLES
    variant,           \* "plain" | "typed": which copy of the class is running
    includeRawChunks,  \* options.includeRawChunks of the doStream call
    phase,             \* of a stream: "streaming" | "closed" (flush returned) |
                       \* "transform-threw" | "flush-threw" | "aborted";
                       \* of another call: "called" | "returned"
    responseId,        \* let responseId            (doStream closure)
    sawToolCall,       \* let sawToolCall = false   (doStream closure)
    usage,             \* let usage                 (doStream closure)
    finishReason,      \* let finishReason          (doStream closure)
    activeTextId,      \* let activeTextId = null   (doStream closure)
    threw,             \* a transformer callback threw: the stream is errored
    out,               \* events enqueued on the controller, in order
    received,          \* vendor chunks handed to transform so far, in order
    source,            \* vendor chunks the transport still holds (scripted runs)
    response,          \* the vendor response a doGenerate call received
    result,            \* what the doGenerate call returned or threw
    prompt,            \* the prompt handed to convertPromptToInput
    input,             \* what convertPromptToInput returned
    calls,             \* concurrent doStream calls on one model instance: for
                       \* each call its closure, the chunks it received and
                       \* its phase
    lastCall,          \* the call whose callback ran last (0: none yet)
    alternations,      \* how often the runtime went from one call to the
                       \* other, counted up to two
    options,           \* the call options handed to getArgs
    args               \* what getArgs returned

streamVars == <<includeRawChunks, responseId, sawToolCall, usage, finishReason,
                activeTextId, threw, out, received, source>>

generateVars == <<response, result>>

promptVars == <<prompt, input>>

concurrentVars == <<calls, lastCall, alternations>>

argsVars == <<options, args>>

vars == <<variant, phase, streamVars, generateVars, promptVars, concurrentVars,
          argsVars>>

-----------------------------------------------------------------------------
(* Bounds *)

MaxChunks == 3

-----------------------------------------------------------------------------
(* Optional values and JavaScript truthiness *)

None == <<>>

Some(x) == <<x>>

\* truthiness of an optional string: undefined, null and "" are falsy
Truthy(opt) == opt # None /\ opt[1] # ""

Variants == {"plain", "typed"}

-----------------------------------------------------------------------------
(* Vendor schema values *)

Statuses == {"in_progress", "completed", "failed", "cancelled", "incomplete"}

\* settings.providerName ?? "openclaw.responses"
providerName == "openclaw.responses"

\* Inside a transformer callback (transform / flush) `this` is the transformer
\* object handed to new TransformStream, which has no `config`.  The typed
\* copy evaluates this.config.providerName there, which throws a TypeError;
\* the plain copy reads the captured constant providerName.
ProviderNameThrows(v) == v = "typed"

mapUsage(u) ==
    [inputTokens  |-> [total |-> u.input_tokens, noCache |-> u.input_tokens,
                       cacheRead |-> 0, cacheWrite |-> 0],
     outputTokens |-> [total |-> u.output_tokens, text |-> u.output_tokens,
                       reasoning |-> 0],
     raw          |-> u]

\* a faulty mapFinishReason: the status is looked at before the tool-call flag
mapFinishReasonStatusFirst(status, saw) ==
    CASE status = "completed" -> [unified |-> "stop", raw |-> "completed"]
      [] status = "failed"    -> [unified |-> "error", raw |-> "failed"]
      [] saw \/ status = "incomplete" -> [unified |-> "tool-calls", raw |-> "tool_calls"]
      [] OTHER                -> [unified |-> "other", raw |-> status]

mapFinishReason(status, saw) ==
    IF saw \/ status = "incomplete"
    THEN [unified |-> "tool-calls", raw |-> "tool_calls"]
    ELSE CASE status = "completed" -> [unified |-> "stop", raw |-> "completed"]
           [] status = "failed"    -> [unified |-> "error", raw |-> "failed"]
           [] OTHER                -> [unified |-> "other", raw |-> status]

-----------------------------------------------------------------------------
(* The stream transform, as a function of the closure state *)

\* the closure state of one doStream call
State ==
    [responseId |-> responseId, sawToolCall |-> sawToolCall, usage |-> usage,
     finishReason |-> finishReason, activeTextId |-> activeTextId,
     threw |-> threw, out |-> out]

\* start(controller): controller.enqueue({ type: "stream-start", warnings })
streamStart(warnings) == [type |-> "stream-start", warnings |-> warnings]

\* let responseId; let sawToolCall = false; let usage; let finishReason;
\* let activeTextId = null; start() has enqueued stream-start (of a call
\* whose options raised no warning)
InitState ==
    [responseId |-> None, sawToolCall |-> FALSE, usage |-> None,
     finishReason |-> None, activeTextId |-> None, threw |-> FALSE,
     out |-> <<streamStart(<<>>)>>]

\* a faulty enqueue: the event is put in front of the queue
enqueueFront(s, e) == [s EXCEPT !.out = <<e>> \o @]

enqueue(s, e) == [s EXCEPT !.out = Append(@, e)]

\* text of a reasoning item: item.summary ?? item.content
reasoningText(item) == IF item.summary # None THEN item.summary ELSE item.content

\* case "response.output_item.added" / "response.output_item.done"
onOutputItem(v, s, item) ==
    IF item.type = "function_call"
    THEN LET s1 == [s EXCEPT !.sawToolCall = TRUE]
         IN  IF ProviderNameThrows(v)
             THEN [s1 EXCEPT !.threw = TRUE]
             ELSE enqueue(s1, [type |-> "tool-call", toolCallId |-> item.call_id,
                               toolName |-> item.name, input |-> item.arguments,
                               providerMetadata |->
                                   [provider |-> providerName, itemId |-> item.id]])
    ELSE IF item.type = "reasoning"
    THEN LET text == reasoningText(item)
         IN  IF text # None /\ text[1] # <<>>
             THEN enqueue(enqueue(enqueue(s,
                      [type |-> "reasoning-start", id |-> item.id]),
                      [type |-> "reasoning-delta", id |-> item.id, delta |-> text[1]]),
                      [type |-> "reasoning-end", id |-> item.id])
             ELSE s
    ELSE s

\* case "response.output_text.delta"
onTextDelta(s, event) ==
    LET s1 == IF ~Truthy(s.activeTextId)
              THEN enqueue([s EXCEPT !.activeTextId = Some(event.item_id)],
                           [type |-> "text-start", id |-> event.item_id])
              ELSE s
    IN  enqueue(s1, [type |-> "text-delta", id |-> s1.activeTextId[1],
                     delta |-> event.delta])

\* case "response.created"
onCreated(s, event) ==
    enqueue([s EXCEPT !.responseId = Some(event.response.id)],
            [type |-> "response-metadata", id |-> event.response.id,
             timestamp |-> event.response.created_at * 1000,
             modelId |-> event.response.model])

\* a faulty terminal case: the usage is captured without a finish reason
onTerminalUsageOnly(s, event) ==
    [s EXCEPT !.usage = Some(mapUsage(event.response.usage))]

\* a faulty terminal case: the finish reason is computed from the status alone
onTerminalStatusOnly(s, event) ==
    [s EXCEPT !.usage = Some(mapUsage(event.response.usage)),
              !.finishReason = Some(mapFinishReason(event.response.status, FALSE))]

\* case "response.completed" / "response.failed"
onTerminal(s, event) ==
    [s EXCEPT !.usage = Some(mapUsage(event.response.usage)),
              !.finishReason = Some(mapFinishReason(event.response.status,
                                                    s.sawToolCall))]

\* if (!chunk.success) { ... }
onInvalid(s, chunk) ==
    enqueue([s EXCEPT !.finishReason = Some([unified |-> "error", raw |-> "error"])],
            [type |-> "error", error |-> chunk.error])

\* a faulty transform: response.output_text.done closes the open text segment
transformDoneClosesText(v, raw, s, chunk) ==
    LET s1 == IF raw THEN enqueue(s, [type |-> "raw", rawValue |-> chunk.rawValue])
              ELSE s
    IN  IF ~chunk.success THEN onInvalid(s1, chunk)
        ELSE LET event == chunk.value
             IN  CASE event.type = "response.created" -> onCreated(s1, event)
                   [] event.type = "response.output_text.delta" -> onTextDelta(s1, event)
                   [] event.type \in {"response.output_item.added",
                                      "response.output_item.done"} ->
                          onOutputItem(v, s1, event.item)
                   [] event.type \in {"response.completed", "response.failed"} ->
                          onTerminal(s1, event)
                   [] event.type = "response.output_text.done"
                          /\ Truthy(s1.activeTextId) ->
                          enqueue([s1 EXCEPT !.activeTextId = None],
                                  [type |-> "text-end", id |-> s1.activeTextId[1]])
                   [] OTHER -> s1

\* transform(chunk, controller)
transform(v, raw, s, chunk) ==
    LET s1 == IF raw THEN enqueue(s, [type |-> "raw", rawValue |-> chunk.rawValue])
              ELSE s
    IN  IF ~chunk.success THEN onInvalid(s1, chunk)
        ELSE LET event == chunk.value
             IN  CASE event.type = "response.created" -> onCreated(s1, event)
                   [] event.type = "response.output_text.delta" -> onTextDelta(s1, event)
                   [] event.type \in {"response.output_item.added",
                                      "response.output_item.done"} ->
                          onOutputItem(v, s1, event.item)
                   [] event.type \in {"response.completed", "response.failed"} ->
                          onTerminal(s1, event)
                   [] OTHER -> s1

\* flush(controller)
flush(v, s) ==
    LET s1 == IF Truthy(s.activeTextId)
              THEN enqueue(s, [type |-> "text-end", id |-> s.activeTextId[1]])
              ELSE s
    IN  IF s.usage = None THEN s1
        ELSE IF Truthy(s.responseId) /\ ProviderNameThrows(v)
        THEN [s1 EXCEPT !.threw = TRUE]
        ELSE enqueue(s1,
                 [type |-> "finish", usage |-> s.usage[1],
                  finishReason |-> IF s.finishReason # None THEN s.finishReason[1]
                                   ELSE [unified |-> "other", raw |-> "unknown"],
                  providerMetadata |->
                      IF Truthy(s.responseId)
                      THEN Some([provider |-> providerName,
                                 responseId |-> s.responseId[1]])
                      ELSE None])

-----------------------------------------------------------------------------
(* Vendor chunks fed to the streams of the model *)

ResponseIds == {"", "resp_1"}

ItemIds == {"", "item_1", "item_2"}

usageA == [input_tokens |-> 1, output_tokens |-> 2, total_tokens |-> 3]

usageB == [input_tokens |-> 4, output_tokens |-> 0, total_tokens |-> 4]

Response(id, status, u) ==
    [id |-> id, object |-> "response", created_at |-> 1, status |-> status,
     model |-> "openclaw:main", output |-> <<>>, usage |-> u]

\* a chunk that passed validation: {success: true, value, rawValue}
Ok(event) == [success |-> TRUE, value |-> event, rawValue |-> event]

\* a chunk that failed validation: {success: false, error, rawValue}
Invalid == [success |-> FALSE, error |-> "TypeValidationError", rawValue |-> "garbage"]

ResponseEvent(type, id, status, u) == [type |-> type, response |-> Response(id, status, u)]

TextDelta(item, delta) ==
    [type |-> "response.output_text.delta", item_id |-> item, output_index |-> 0,
     content_index |-> 0, delta |-> delta]

FunctionCallItem ==
    [type |-> "function_call", id |-> "fc_1", call_id |-> "call_1",
     name |-> "lookup", arguments |-> "{}"]

ReasoningItem(summary, content) ==
    [type |-> "reasoning", id |-> "rs_1", summary |-> summary, content |-> content]

MessageItem ==
    [type |-> "message", id |-> "msg_1", role |-> "assistant",
     content |-> <<[type |-> "output_text", text |-> <<"h">>]>>]

OutputItemEvent(type, item) == [type |-> type, output_index |-> 0, item |-> item]

CreatedChunks ==
    {Ok(ResponseEvent("response.created", id, "in_progress", usageA)) : id \in ResponseIds}

TerminalChunks ==
    {Ok(ResponseEvent("response.completed", "resp_1", "completed", usageA)),
     Ok(ResponseEvent("response.completed", "resp_1", "incomplete", usageA)),
     Ok(ResponseEvent("response.failed", "resp_1", "failed", usageB)),
     Ok(ResponseEvent("response.failed", "resp_1", "cancelled", usageB))}

DeltaChunks ==
    {Ok(TextDelta("item_1", <<"a">>)), Ok(TextDelta("item_2", <<"b">>)),
     Ok(TextDelta("", <<"c">>))}

ItemChunks ==
    {Ok(OutputItemEvent("response.output_item.added", FunctionCallItem)),
     Ok(OutputItemEvent("response.output_item.done", FunctionCallItem)),
     Ok(OutputItemEvent("response.output_item.done",
                        ReasoningItem(Some(<<"s">>), None))),
     Ok(OutputItemEvent("response.output_item.done", ReasoningItem(None, None))),
     Ok(OutputItemEvent("response.output_item.done", MessageItem))}

OtherChunks ==
    {Ok(ResponseEvent("response.in_progress", "resp_1", "in_progress", usageA)),
     Ok([type |-> "response.output_text.done", item_id |-> "item_1",
         output_index |-> 0, content_index |-> 0, text |-> <<"a">>]),
     Ok([type |-> "response.content_part.added", item_id |-> "item_1",
         output_index |-> 0, content_index |-> 0,
         part |-> [type |-> "output_text", text |-> <<>>]]),
     Ok([type |-> "response.content_part.done", item_id |-> "item_1",
         output_index |-> 0, content_index |-> 0,
         part |-> [type |-> "output_text", text |-> <<"a">>]])}

Chunks ==
    {Invalid} \cup CreatedChunks \cup TerminalChunks \cup DeltaChunks
        \cup ItemChunks \cup OtherChunks

-----------------------------------------------------------------------------
(* One doStream call: the transport pushes chunks, then closes or aborts *)

SetState(s) ==
    /\ responseId' = s.responseId
    /\ sawToolCall' = s.sawToolCall
    /\ usage' = s.usage
    /\ finishReason' = s.finishReason
    /\ activeTextId' = s.activeTextId
    /\ threw' = s.threw
    /\ out' = s.out

\* the closure of a doStream call right after start() ran
StreamStarted ==
    /\ responseId = InitState.responseId
    /\ sawToolCall = InitState.sawToolCall
    /\ usage = InitState.usage
    /\ finishReason = InitState.finishReason
    /\ activeTextId = InitState.activeTextId
    /\ threw = InitState.threw
    /\ out = InitState.out
    /\ received = <<>>

\* no doGenerate call is part of the run
NoGenerateCall == response = None /\ result = None

\* no convertPromptToInput call is part of the run
NoPromptCall == prompt = None /\ input = None

\* no concurrent doStream calls are part of the run
NoConcurrentCalls == calls = <<>> /\ lastCall = 0 /\ alternations = 0

\* getArgs is not part of the run
NoArgsCall == options = None /\ args = None

Init ==
    /\ variant \in Variants
    /\ includeRawChunks \in BOOLEAN
    /\ phase = "streaming"
    /\ StreamStarted
    /\ NoGenerateCall
    /\ NoPromptCall
    /\ NoConcurrentCalls
    /\ NoArgsCall
    /\ source = <<>>

\* the transport delivers one chunk and the stream runs transform on it
Transform ==
    /\ phase = "streaming"
    /\ Len(received) < MaxChunks
    /\ \E chunk \in Chunks :
        LET s == transform(variant, includeRawChunks, State, chunk)
        IN  /\ SetState(s)
            /\ received' = Append(received, chunk)
            /\ phase' = IF s.threw THEN "transform-threw" ELSE "streaming"
    /\ UNCHANGED <<variant, includeRawChunks, source, generateVars, promptVars,
                 concurrentVars, argsVars>>

\* the transport ends normally and the stream runs flush
Flush ==
    /\ phase = "streaming"
    /\ LET s == flush(variant, State)
       IN  /\ SetState(s)
           /\ phase' = IF s.threw THEN "flush-threw" ELSE "closed"
    /\ UNCHANGED <<variant, includeRawChunks, received, source, generateVars, promptVars,
                 concurrentVars, argsVars>>

\* a faulty abort: abandoning the transport closes the stream through flush
AbortRunsFlush ==
    /\ phase = "streaming"
    /\ SetState(flush(variant, State))
    /\ phase' = "aborted"
    /\ UNCHANGED <<variant, includeRawChunks, received, source, generateVars, promptVars,
                 concurrentVars, argsVars>>

\* the transport errors or the abort signal fires: the stream is errored and
\* no callback of the transformer runs again
Abort ==
    /\ phase = "streaming"
    /\ phase' = "aborted"
    /\ UNCHANGED <<variant, streamVars, generateVars, promptVars,
                 concurrentVars, argsVars>>

Next == Transform \/ Flush \/ Abort

Spec == Init /\ [][Next]_vars

-----------------------------------------------------------------------------
(* A doStream call over a transport that holds one text answer:              *)
(* response.created, three response.output_text.delta of one item,          *)
(* response.completed                                                       *)

DeltaTexts == {<<>>, <<"a">>, <<"b", "c">>}

TextScripts ==
    {<<Ok(ResponseEvent("response.created", id, "in_progress", usageA)),
       Ok(TextDelta(item, d[1])), Ok(TextDelta(item, d[2])), Ok(TextDelta(item, d[3])),
       Ok(ResponseEvent("response.completed", id, status, usageB))>> :
        id \in ResponseIds, item \in ItemIds,
        d \in [1..3 -> DeltaTexts], status \in {"completed", "incomplete"}}

InitScript ==
    /\ variant \in Variants
    /\ includeRawChunks \in BOOLEAN
    /\ phase = "streaming"
    /\ StreamStarted
    /\ NoGenerateCall
    /\ NoPromptCall
    /\ NoConcurrentCalls
    /\ NoArgsCall
    /\ source \in TextScripts

\* the transport delivers its next chunk and the stream runs transform on it
ScriptTransform ==
    /\ phase = "streaming"
    /\ source # <<>>
    /\ LET s == transform(variant, includeRawChunks, State, Head(source))
       IN  /\ SetState(s)
           /\ phase' = IF s.threw THEN "transform-threw" ELSE "streaming"
    /\ received' = Append(received, Head(source))
    /\ source' = Tail(source)
    /\ UNCHANGED <<variant, includeRawChunks, generateVars, promptVars,
                 concurrentVars, argsVars>>

\* the transport has delivered everything and ends: the stream runs flush
ScriptFlush ==
    /\ source = <<>>
    /\ Flush

NextScript == ScriptTransform \/ ScriptFlush

SpecScript == InitScript /\ [][NextScript]_vars

-----------------------------------------------------------------------------
(* doGenerate *)

MaxOutput == 2

\* content.push(...) of one output item; acc is [content, sawToolCall]
generateItem(acc, item) ==
    CASE item.type = "message" ->
             [acc EXCEPT !.content = @ \o
                 [i \in DOMAIN item.content |->
                     [type |-> "text", text |-> item.content[i].text,
                      providerMetadata |->
                          [provider |-> providerName, itemId |-> item.id]]]]
      [] item.type = "function_call" ->
             [acc EXCEPT !.sawToolCall = TRUE,
                         !.content = Append(@,
                             [type |-> "tool-call", toolCallId |-> item.call_id,
                              toolName |-> item.name, input |-> item.arguments,
                              providerMetadata |->
                                  [provider |-> providerName, itemId |-> item.id]])]
      [] item.type = "reasoning" ->
             LET text == reasoningText(item)
             IN  IF text # None /\ text[1] # <<>>
                 THEN [acc EXCEPT !.content = Append(@,
                          [type |-> "reasoning", text |-> text[1],
                           providerMetadata |->
                               [provider |-> providerName, itemId |-> item.id]])]
                 ELSE acc
      [] OTHER -> acc

RECURSIVE generateLoop(_, _)
\* for (const item of response.output) { ... }
generateLoop(acc, items) ==
    IF items = <<>> THEN acc
    ELSE generateLoop(generateItem(acc, Head(items)), Tail(items))

\* a faulty doGenerate: the error field is looked at only when the status
\* is failed
doGenerateThrowsOnFailed(resp) ==
    IF resp.error # None /\ resp.status = "failed"
    THEN [threw |-> TRUE,
          error |-> [name |-> "APICallError", message |-> resp.error[1].message,
                     requestBodyValues |-> "body", statusCode |-> 400,
                     responseBody |-> resp, isRetryable |-> FALSE]]
    ELSE [threw |-> FALSE,
          content |-> generateLoop([content |-> <<>>, sawToolCall |-> FALSE],
                                   resp.output).content,
          finishReason |-> mapFinishReason(resp.status, FALSE),
          usage |-> mapUsage(resp.usage),
          request |-> [body |-> "body"],
          response |-> [id |-> resp.id, timestamp |-> resp.created_at * 1000,
                        modelId |-> resp.model, body |-> resp],
          providerMetadata |-> [provider |-> providerName, responseId |-> resp.id]]

\* doGenerate(options), from the vendor response on
doGenerate(resp) ==
    IF resp.error # None
    THEN [threw |-> TRUE,
          error |-> [name |-> "APICallError", message |-> resp.error[1].message,
                     requestBodyValues |-> "body", statusCode |-> 400,
                     responseBody |-> resp, isRetryable |-> FALSE]]
    ELSE LET acc == generateLoop([content |-> <<>>, sawToolCall |-> FALSE],
                                 resp.output)
         IN  [threw |-> FALSE,
              content |-> acc.content,
              finishReason |-> mapFinishReason(resp.status, acc.sawToolCall),
              usage |-> mapUsage(resp.usage),
              request |-> [body |-> "body"],
              response |-> [id |-> resp.id, timestamp |-> resp.created_at * 1000,
                            modelId |-> resp.model, body |-> resp],
              providerMetadata |-> [provider |-> providerName, responseId |-> resp.id]]

MessageItemWith(texts) ==
    [type |-> "message", id |-> "msg_1", role |-> "assistant",
     content |-> [i \in DOMAIN texts |-> [type |-> "output_text", text |-> texts[i]]]]

OptionalTexts(t) == {None, Some(<<>>), Some(t)}

GenerateItems ==
    {MessageItemWith(<<>>), MessageItemWith(<<<<"h">>, <<"i">>>>), FunctionCallItem}
        \cup {ReasoningItem(s, c) : s \in OptionalTexts(<<"s">>),
                                    c \in OptionalTexts(<<"c">>)}

SeqsUpTo(S, n) == UNION {[1..k -> S] : k \in 0..n}

VendorErrors == {None, Some([code |-> "bad_request", message |-> "boom"])}

GenerateResponses ==
    {[Response("resp_1", status, usageA) EXCEPT !.output = items] @@ [error |-> e] :
        status \in Statuses, items \in SeqsUpTo(GenerateItems, MaxOutput),
        e \in VendorErrors}

\* no doStream call is part of the run
NoStreamCall ==
    /\ includeRawChunks = FALSE
    /\ responseId = None
    /\ sawToolCall = FALSE
    /\ usage = None
    /\ finishReason = None
    /\ activeTextId = None
    /\ threw = FALSE
    /\ out = <<>>
    /\ received = <<>>
    /\ source = <<>>

InitGenerate ==
    /\ variant \in Variants
    /\ phase = "called"
    /\ response \in {Some(r) : r \in GenerateResponses}
    /\ result = None
    /\ NoStreamCall
    /\ NoPromptCall
    /\ NoConcurrentCalls
    /\ NoArgsCall

\* the transport hands the validated response to doGenerate, which returns
\* its result or throws
DoGenerate ==
    /\ phase = "called"
    /\ response # None
    /\ result' = Some(doGenerate(response[1]))
    /\ phase' = "returned"
    /\ UNCHANGED <<variant, response, streamVars, promptVars,
                 concurrentVars, argsVars>>

NextGenerate == DoGenerate

SpecGenerate == InitGenerate /\ [][NextGenerate]_vars

-----------------------------------------------------------------------------
(* Two doStream calls on one model instance whose callbacks the runtime      *)
(* serves in any order                                                      *)

MaxCallChunks == 2

CallIds == {1, 2}

\* the chunks the transport of a call delivers: each call has its own
\* response id, item id, text and usage
CallChunks(c) ==
    LET id == IF c = 1 THEN "resp_1" ELSE "resp_2"
        item == IF c = 1 THEN "item_1" ELSE "item_2"
        text == IF c = 1 THEN <<"a">> ELSE <<"b">>
        u == IF c = 1 THEN usageA ELSE usageB
    IN  {Ok(ResponseEvent("response.created", id, "in_progress", u)),
         Ok(TextDelta(item, text)),
         Ok(OutputItemEvent("response.output_item.done", FunctionCallItem)),
         Ok(ResponseEvent("response.completed", id, "completed", u))}

\* a faulty closure: the variables live on the model instance, so that the
\* callbacks of every call read what the first call left
closureOfInstance(c) == calls[1].state

\* the variables the callbacks of call c close over: they are declared in
\* the body of doStream, once per call
closure(c) == calls[c].state

\* the runtime turns to call c
Serve(c) ==
    /\ lastCall' = c
    /\ alternations' = IF lastCall \notin {0, c} /\ alternations < 2
                       THEN alternations + 1 ELSE alternations

InitConcurrent ==
    /\ variant \in Variants
    /\ includeRawChunks \in BOOLEAN
    /\ phase = "streaming"
    /\ calls = [c \in CallIds |->
                   [state |-> InitState, received |-> <<>>, phase |-> "streaming"]]
    /\ lastCall = 0
    /\ alternations = 0
    /\ NoStreamCall
    /\ NoGenerateCall
    /\ NoPromptCall
    /\ NoArgsCall

\* the transport of call c delivers one chunk and its stream runs transform
TransformOf(c) ==
    /\ calls[c].phase = "streaming"
    /\ Len(calls[c].received) < MaxCallChunks
    /\ \E chunk \in CallChunks(c) :
        LET s == transform(variant, includeRawChunks, closure(c), chunk)
        IN  calls' = [calls EXCEPT ![c] =
                         [state |-> s, received |-> Append(@.received, chunk),
                          phase |-> IF s.threw THEN "transform-threw"
                                    ELSE "streaming"]]
    /\ Serve(c)
    /\ UNCHANGED <<variant, phase, streamVars, generateVars, promptVars, argsVars>>

\* the transport of call c ends and its stream runs flush
FlushOf(c) ==
    /\ calls[c].phase = "streaming"
    /\ LET s == flush(variant, closure(c))
       IN  calls' = [calls EXCEPT ![c] =
                        [state |-> s, received |-> @.received,
                         phase |-> IF s.threw THEN "flush-threw" ELSE "closed"]]
    /\ Serve(c)
    /\ UNCHANGED <<variant, phase, streamVars, generateVars, promptVars, argsVars>>

NextConcurrent == \E c \in CallIds : TransformOf(c) \/ FlushOf(c)

SpecConcurrent == InitConcurrent /\ [][NextConcurrent]_vars

-----------------------------------------------------------------------------
(* Reasoning items, through doGenerate and through a doStream call *)

ReasoningChunks ==
    {Ok(OutputItemEvent(type, ReasoningItem(summary, content))) :
        type \in {"response.output_item.added", "response.output_item.done"},
        summary \in OptionalTexts(<<"s">>), content \in OptionalTexts(<<"c">>)}

\* a doStream call over a transport that holds reasoning items only
InitReasoningStream ==
    /\ variant \in Variants
    /\ includeRawChunks \in BOOLEAN
    /\ phase = "streaming"
    /\ StreamStarted
    /\ NoGenerateCall
    /\ NoPromptCall
    /\ NoConcurrentCalls
    /\ NoArgsCall
    /\ source \in SeqsUpTo(ReasoningChunks, MaxOutput)

InitReasoning == InitGenerate \/ InitReasoningStream

NextReasoning == DoGenerate \/ ScriptTransform \/ ScriptFlush

SpecReasoning == InitReasoning /\ [][NextReasoning]_vars

-----------------------------------------------------------------------------
(* convertPromptToInput *)

MaxParts == 2

\* "http://", "https://", "image/", "image/*", "image/jpeg", "application/pdf", "\n"
HttpPrefix == <<"h", "t", "t", "p", ":", "/", "/">>

HttpsPrefix == <<"h", "t", "t", "p", "s", ":", "/", "/">>

ImagePrefix == <<"i", "m", "a", "g", "e", "/">>

ImageAny == ImagePrefix \o <<"*">>

ImageJpeg == ImagePrefix \o <<"j", "p", "e", "g">>

ApplicationPdf ==
    <<"a", "p", "p", "l", "i", "c", "a", "t", "i", "o", "n", "/", "p", "d", "f">>

Newline == <<"\n">>

startsWith(text, prefix) ==
    Len(text) >= Len(prefix) /\ SubSeq(text, 1, Len(prefix)) = prefix

\* the /i flag of the pattern, on the letters it names
lowerCase(c) ==
    CASE c = "H" -> "h" [] c = "T" -> "t" [] c = "P" -> "p" [] c = "S" -> "s"
      [] OTHER -> c

\* /^https?:\/\//i.test(value)
isHttpUrl(value) ==
    LET lower == [i \in DOMAIN value |-> lowerCase(value[i])]
    IN  startsWith(lower, HttpPrefix) \/ startsWith(lower, HttpsPrefix)

RECURSIVE join(_, _)
\* texts.join(separator)
join(texts, separator) ==
    IF texts = <<>> THEN <<>>
    ELSE IF Len(texts) = 1 THEN texts[1]
    ELSE texts[1] \o separator \o join(Tail(texts), separator)

\* JSON.stringify of the values the model draws: a boolean
\* [kind |-> "boolean", value |-> b] and the object {"ok": b}
\* [kind |-> "object", ok |-> b]
jsonStringify(value) ==
    LET bool(b) == IF b THEN <<"t", "r", "u", "e">> ELSE <<"f", "a", "l", "s", "e">>
    IN  IF value.kind = "boolean" THEN bool(value.value)
        ELSE <<"{", "\"", "o", "k", "\"", ":">> \o bool(value.ok) \o <<"}">>

DeniedFallback ==
    <<"T", "o", "o", "l", " ", "e", "x", "e", "c", "u", "t", "i", "o", "n", " ",
      "d", "e", "n", "i", "e", "d", ".">>

toToolOutputString(output) ==
    CASE output.type \in {"text", "error-text"} -> output.value
      [] output.type \in {"json", "error-json"} -> jsonStringify(output.value)
      [] output.type = "execution-denied" ->
             IF output.reason # None THEN output.reason[1] ELSE DeniedFallback
      [] OTHER -> jsonStringify(output.value)

\* normalizeContentParts(message) of the plain copy; the typed copy reads
\* message.content, an array of parts
normalizeContentParts(v, message) ==
    IF v = "typed" THEN message.content.parts
    ELSE CASE message.content.kind = "array" -> message.content.parts
           [] message.content.kind = "string" ->
                  <<[type |-> "text", text |-> message.content.text]>>
           [] OTHER -> <<>>

\* the vendor content part of a file part
filePart(part) ==
    LET mediaType == IF part.mediaType = ImageAny THEN ImageJpeg ELSE part.mediaType
        isImage == startsWith(mediaType, ImagePrefix)
    IN  IF part.data.kind = "URL"
        THEN [type |-> IF isImage THEN "input_image" ELSE "input_file",
              source |-> [type |-> "url", url |-> part.data.href]]
        ELSE IF isHttpUrl(part.data.value)
        THEN [type |-> IF isImage THEN "input_image" ELSE "input_file",
              source |-> [type |-> "url", url |-> part.data.value]]
        ELSE IF isImage
        THEN [type |-> "input_image",
              source |-> [type |-> "base64", media_type |-> mediaType,
                          data |-> part.data.value]]
        ELSE [type |-> "input_file",
              source |-> [type |-> "base64", media_type |-> mediaType,
                          data |-> part.data.value, filename |-> part.filename]]

\* a faulty convertPart: a tool-call part is kept as text of the message
\* instead of becoming an item of its own
convertPartInline(acc, assistant, part) ==
    CASE part.type \in {"text", "tool-call"} ->
             [acc EXCEPT !.contentParts = Append(@,
                 [type |-> IF assistant THEN "output_text" ELSE "input_text",
                  text |-> IF part.type = "text" THEN part.text ELSE part.input])]
      [] part.type = "file" ->
             [acc EXCEPT !.contentParts = Append(@, filePart(part))]
      [] part.type = "reasoning" ->
             [acc EXCEPT !.input = Append(@,
                 [type |-> "reasoning", content |-> part.text])]
      [] OTHER -> acc

\* one round of for (const part of message.content) in a user / assistant
\* message; acc is [input, contentParts]
convertPart(acc, assistant, part) ==
    CASE part.type = "text" ->
             [acc EXCEPT !.contentParts = Append(@,
                 [type |-> IF assistant THEN "output_text" ELSE "input_text",
                  text |-> part.text])]
      [] part.type = "file" ->
             [acc EXCEPT !.contentParts = Append(@, filePart(part))]
      [] part.type = "tool-call" ->
             [acc EXCEPT !.input = Append(@,
                 [type |-> "function_call", call_id |-> part.toolCallId,
                  name |-> part.toolName, arguments |-> part.input])]
      [] part.type = "reasoning" ->
             [acc EXCEPT !.input = Append(@,
                 [type |-> "reasoning", content |-> part.text])]
      [] OTHER -> acc

RECURSIVE convertParts(_, _, _)
convertParts(acc, assistant, parts) ==
    IF parts = <<>> THEN acc
    ELSE convertParts(convertPart(acc, assistant, Head(parts)), assistant, Tail(parts))

\* a faulty convertToolPart: an approval response is answered like a result
convertToolPartKeepsApproval(items, part) ==
    Append(items,
        [type |-> "function_call_output",
         call_id |-> IF part.type = "tool-approval-response"
                     THEN part.approvalId ELSE part.toolCallId,
         output |-> IF part.type = "tool-approval-response"
                    THEN <<>> ELSE toToolOutputString(part.output)])

\* one round of for (const part of message.content) in a tool message
convertToolPart(items, part) ==
    IF part.type = "tool-approval-response" THEN items
    ELSE Append(items, [type |-> "function_call_output", call_id |-> part.toolCallId,
                        output |-> toToolOutputString(part.output)])

RECURSIVE convertToolParts(_, _)
convertToolParts(items, parts) ==
    IF parts = <<>> THEN items
    ELSE convertToolParts(convertToolPart(items, Head(parts)), Tail(parts))

\* message.content.filter(text parts).map(part.text).join("\n")
systemText(v, message) ==
    LET parts == normalizeContentParts(v, message)
        textParts == SelectSeq(parts, LAMBDA part : part.type = "text")
    IN  join([i \in DOMAIN textParts |-> textParts[i].text], Newline)

\* one round of for (const message of prompt): input with the items of message
convertMessage(v, items, message) ==
    CASE message.role \in {"system", "developer"} ->
             LET text == systemText(v, message)
             IN  IF text # <<>>
                 THEN Append(items, [type |-> "message", role |-> message.role,
                                     content |-> text])
                 ELSE items
      [] message.role \in {"user", "assistant"} ->
             LET acc == convertParts([input |-> items, contentParts |-> <<>>],
                                     message.role = "assistant",
                                     normalizeContentParts(v, message))
             IN  IF Len(acc.contentParts) > 0
                 THEN Append(acc.input, [type |-> "message", role |-> message.role,
                                         content |-> acc.contentParts])
                 ELSE acc.input
      [] message.role = "tool" ->
             convertToolParts(items,
                 IF message.content.kind = "array" THEN message.content.parts ELSE <<>>)
      [] OTHER -> items

RECURSIVE convertMessages(_, _, _)
convertMessages(v, items, messages) ==
    IF messages = <<>> THEN items
    ELSE convertMessages(v, convertMessage(v, items, Head(messages)), Tail(messages))

\* convertPromptToInput(prompt)
convertPromptToInput(v, messages) == convertMessages(v, <<>>, messages)

(* Prompts fed to convertPromptToInput *)

TextPart(text) == [type |-> "text", text |-> text]

ImageUrlPart ==
    [type |-> "file", mediaType |-> ImageAny,
     data |-> [kind |-> "string", value |-> <<"H", "t", "t", "p", "S", ":", "/", "/", "x">>],
     filename |-> None]

PdfPart ==
    [type |-> "file", mediaType |-> ApplicationPdf,
     data |-> [kind |-> "string", value |-> <<"Q", "Q", "=", "=">>],
     filename |-> Some(<<"f">>)]

ToolCallPart ==
    [type |-> "tool-call", toolCallId |-> "call_1", toolName |-> "lookup",
     input |-> <<"{", "}">>]

ReasoningPart == [type |-> "reasoning", text |-> <<"r">>]

ToolResultPart(id, output) ==
    [type |-> "tool-result", toolCallId |-> id, toolName |-> "lookup", output |-> output]

ApprovalPart ==
    [type |-> "tool-approval-response", approvalId |-> "approval_1", approved |-> TRUE]

PartsOf(role) ==
    CASE role \in {"system", "developer"} -> {TextPart(<<>>), TextPart(<<"a">>), ImageUrlPart}
      [] role = "user" -> {TextPart(<<"u">>), ImageUrlPart, PdfPart}
      [] role = "assistant" -> {TextPart(<<"t">>), ToolCallPart, ReasoningPart}
      [] role = "tool" ->
             {ToolResultPart("call_1", [type |-> "text", value |-> <<"o">>]),
              ToolResultPart("call_2", [type |-> "json", value |-> [kind |-> "object", ok |-> TRUE]]),
              ApprovalPart}
      [] OTHER -> {}

Roles == {"system", "developer", "user", "assistant", "tool", "function"}

\* the plain copy also takes a system / developer content given as a string
Messages(v) ==
    UNION {{[role |-> role, content |-> [kind |-> "array", parts |-> parts]] :
                    parts \in SeqsUpTo(PartsOf(role), MaxParts)} : role \in Roles}
    \cup (IF v = "plain"
          THEN {[role |-> role, content |-> [kind |-> "string", text |-> text]] :
                   role \in {"system", "developer"}, text \in {<<>>, <<"a">>}}
          ELSE {})

\* prompts of one message and of two: the loop over the messages keeps
\* nothing from one message to the next but the items already appended
Prompts(v) ==
    {<<m>> : m \in Messages(v)} \cup {<<m, n>> : m, n \in Messages(v)}

InitPrompt ==
    /\ variant \in Variants
    /\ phase = "called"
    /\ prompt \in {Some(p) : p \in Prompts(variant)}
    /\ input = None
    /\ NoStreamCall
    /\ NoGenerateCall
    /\ NoConcurrentCalls
    /\ NoArgsCall

\* getArgs calls convertPromptToInput(options.prompt)
ConvertPrompt ==
    /\ phase = "called"
    /\ prompt # None
    /\ input' = Some(convertPromptToInput(variant, prompt[1]))
    /\ phase' = "returned"
    /\ UNCHANGED <<variant, prompt, streamVars, generateVars,
                 concurrentVars, argsVars>>

NextPrompt == ConvertPrompt

SpecPrompt == InitPrompt /\ [][NextPrompt]_vars

-----------------------------------------------------------------------------
(* getArgs, and what doGenerate and doStream do with its result *)

MaxTools == 2

\* the call options the provider does not forward, in the order getArgs
\* tests them
UnsupportedOptions ==
    <<"topK", "stopSequences", "presencePenalty", "frequencyPenalty", "seed",
      "responseFormat">>

\* a faulty series of tests: the responseFormat test is missing
unsupportedWarningsFive(opts) ==
    LET set == SelectSeq(UnsupportedOptions,
                         LAMBDA name : name # "responseFormat" /\ opts[name] # None)
    IN  [i \in DOMAIN set |-> [type |-> "unsupported", feature |-> set[i]]]

\* if (options.topK != null) warnings.push({ type: "unsupported", feature: "topK" })
\* and the like for the five other options
unsupportedWarnings(opts) ==
    LET set == SelectSeq(UnsupportedOptions, LAMBDA name : opts[name] # None)
    IN  [i \in DOMAIN set |-> [type |-> "unsupported", feature |-> set[i]]]

ProviderToolsWarning ==
    [type |-> "unsupported", feature |-> "providerTools",
     details |-> "OpenClaw responses only support function tools"]

\* the vendor form of a function tool
vendorTool(tool) ==
    [type |-> "function",
     function |-> [name |-> tool.name, description |-> tool.description,
                   parameters |-> tool.inputSchema]]

\* a faulty mapTools: a list without function tools is sent as an empty list
mapToolsEmptyList(tools, warnings) ==
    IF tools = None \/ tools[1] = <<>> THEN [tools |-> None, warnings |-> warnings]
    ELSE LET functionTools == SelectSeq(tools[1], LAMBDA tool : tool.type = "function")
             providerTools == SelectSeq(tools[1], LAMBDA tool : tool.type = "provider")
         IN  [tools |-> Some([i \in DOMAIN functionTools |-> vendorTool(functionTools[i])]),
              warnings |-> IF Len(providerTools) > 0
                           THEN Append(warnings, ProviderToolsWarning) ELSE warnings]

\* mapTools(tools, warnings): the mapped tools (None: undefined) and the
\* warnings array after the call
mapTools(tools, warnings) ==
    IF tools = None \/ tools[1] = <<>> THEN [tools |-> None, warnings |-> warnings]
    ELSE LET functionTools == SelectSeq(tools[1], LAMBDA tool : tool.type = "function")
             providerTools == SelectSeq(tools[1], LAMBDA tool : tool.type = "provider")
         IN  [tools |-> IF Len(functionTools) = 0 THEN None
                        ELSE Some([i \in DOMAIN functionTools |->
                                      vendorTool(functionTools[i])]),
              warnings |-> IF Len(providerTools) > 0
                           THEN Append(warnings, ProviderToolsWarning) ELSE warnings]

\* mapToolChoice(toolChoice); a choice is tagged with its kind
mapToolChoice(toolChoice) ==
    IF toolChoice = None THEN None
    ELSE CASE toolChoice[1].type \in {"auto", "none", "required"} ->
                  Some([kind |-> "mode", mode |-> toolChoice[1].type])
           [] toolChoice[1].type = "tool" ->
                  Some([kind |-> "function", type |-> "function",
                        function |-> [name |-> toolChoice[1].toolName]])
           [] OTHER -> None

\* providerOptions?.field
optional(providerOptions, field) ==
    IF providerOptions = None THEN None ELSE providerOptions[1][field]

\* getArgs(options), for provider options that pass their schema
getArgs(v, opts) ==
    LET warnings == unsupportedWarnings(opts)
        providerOptions == opts.providerOptions
        mapped == mapTools(opts.tools, warnings)
        effort == optional(providerOptions, "reasoningEffort")
        summary == optional(providerOptions, "reasoningSummary")
    IN  [body |->
             [model |-> "openclaw:main",
              input |-> convertPromptToInput(v, opts.prompt),
              temperature |-> opts.temperature,
              top_p |-> opts.topP,
              max_output_tokens |-> opts.maxOutputTokens,
              tools |-> mapped.tools,
              tool_choice |-> mapToolChoice(opts.toolChoice),
              instructions |-> optional(providerOptions, "instructions"),
              user |-> optional(providerOptions, "user"),
              metadata |-> optional(providerOptions, "metadata"),
              max_tool_calls |-> optional(providerOptions, "maxToolCalls"),
              reasoning |-> IF Truthy(effort) \/ Truthy(summary)
                            THEN Some([effort |-> effort, summary |-> summary])
                            ELSE None],
         warnings |-> mapped.warnings,
         providerOptions |-> providerOptions]

\* doGenerate(options) with the result of getArgs: the request body and the
\* warnings go into what it returns or throws
doGenerateWith(a, resp) ==
    LET r == doGenerate(resp)
    IN  IF r.threw THEN [r EXCEPT !.error.requestBodyValues = a.body]
        ELSE [r EXCEPT !.request = [body |-> a.body]] @@ [warnings |-> a.warnings]

(* Call options fed to getArgs *)

FunctionTool(name) ==
    [type |-> "function", name |-> name, description |-> Some("d"),
     inputSchema |-> "schema"]

ProviderTool == [type |-> "provider", id |-> "openclaw.search", name |-> "search"]

Tools == {FunctionTool("lookup"), FunctionTool("search"), ProviderTool}

ProviderOptions(instructions, effort) ==
    [instructions |-> instructions, user |-> None, reasoningEffort |-> effort,
     reasoningSummary |-> None, metadata |-> None, maxToolCalls |-> None,
     sessionKey |-> None, agentId |-> None]

\* an option that is set holds a value that is falsy where there is one:
\* the tests are for null / undefined, not for truthiness
CallOptions ==
    [prompt : {<<[role |-> "user",
                  content |-> [kind |-> "array", parts |-> <<TextPart(<<"u">>)>>]]>>},
     temperature : {Some(1)},
     topP : {None},
     maxOutputTokens : {None},
     topK : {None, Some(0)},
     stopSequences : {None, Some(<<>>)},
     presencePenalty : {None, Some(0)},
     frequencyPenalty : {None, Some(0)},
     seed : {None, Some(0)},
     responseFormat : {None, Some([type |-> "json"])},
     tools : {None} \cup {Some(tools) : tools \in SeqsUpTo(Tools, MaxTools)},
     toolChoice : {None, Some([type |-> "auto"]),
                   Some([type |-> "tool", toolName |-> "lookup"])},
     providerOptions : {None, Some(ProviderOptions(None, None)),
                        Some(ProviderOptions(Some("i"), Some("low")))}]

\* the responses the vendor answers a doGenerate call with
ArgsResponses ==
    {r \in GenerateResponses : r.status = "completed" /\ r.output = <<>>}

InitArgs ==
    /\ variant \in Variants
    /\ phase = "called"
    /\ options \in {Some(o) : o \in CallOptions}
    /\ args = None
    /\ NoStreamCall
    /\ NoGenerateCall
    /\ NoPromptCall
    /\ NoConcurrentCalls

\* doGenerate and doStream begin with await this.getArgs(options)
GetArgs ==
    /\ phase = "called"
    /\ options # None
    /\ args' = Some(getArgs(variant, options[1]))
    /\ phase' = "prepared"
    /\ UNCHANGED <<variant, options, streamVars, generateVars, promptVars,
                   concurrentVars>>

\* the call was doGenerate: the vendor answers and doGenerate returns or throws
GenerateWithArgs ==
    /\ phase = "prepared"
    /\ \E resp \in ArgsResponses :
          /\ response' = Some(resp)
          /\ result' = Some(doGenerateWith(args[1], resp))
    /\ phase' = "returned"
    /\ UNCHANGED <<variant, argsVars, streamVars, promptVars, concurrentVars>>

\* the call was doStream: the stream is set up and start() runs
StartStream ==
    /\ phase = "prepared"
    /\ SetState([InitState EXCEPT !.out = <<streamStart(args[1].warnings)>>])
    /\ phase' = "streaming"
    /\ UNCHANGED <<variant, includeRawChunks, received, source, argsVars,
                   generateVars, promptVars, concurrentVars>>

NextArgs == GetArgs \/ GenerateWithArgs \/ StartStream

SpecArgs == InitArgs /\ [][NextArgs]_vars

-----------------------------------------------------------------------------
(* Vocabulary of the stream claims *)

\* number of positions of seq whose element satisfies Test
Count(seq, Test(_)) == Cardinality({i \in DOMAIN seq : Test(seq[i])})

IsType(e, t) == e.type = t

HasFinish == \E i \in DOMAIN out : out[i].type = "finish"

\* the finish event of the stream (when HasFinish)
FinishEvent == out[CHOOSE i \in DOMAIN out : out[i].type = "finish"]

\* flush was called (and returned or threw)
FlushRan == phase \in {"closed", "flush-threw"}

IsTerminalChunk(c) ==
    c.success /\ c.value.type \in {"response.completed", "response.failed"}

IsFunctionCallChunk(c) ==
    /\ c.success
    /\ c.value.type \in {"response.output_item.added", "response.output_item.done"}
    /\ c.value.item.type = "function_call"

IsDeltaChunk(c) == c.success /\ c.value.type = "response.output_text.delta"

IsInvalidChunk(c) == ~c.success

TerminalReceived == \E i \in DOMAIN received : IsTerminalChunk(received[i])

\* position of the last response.completed / response.failed (when one was received)
LastTerminal ==
    CHOOSE i \in DOMAIN received :
        /\ IsTerminalChunk(received[i])
        /\ \A j \in DOMAIN received : IsTerminalChunk(received[j]) => j <= i

\* the events of a stream without the stream-start preamble and the raw echoes
IsTranslated(e) == e.type \notin {"stream-start", "raw"}

Translated == SelectSeq(out, IsTranslated)

RECURSIVE IsSubsequence(_, _)
\* a is b with some elements left out, order kept
IsSubsequence(a, b) ==
    IF a = <<>> THEN TRUE
    ELSE IF b = <<>> THEN FALSE
    ELSE IF Head(a) = Head(b) THEN IsSubsequence(Tail(a), Tail(b))
    ELSE IsSubsequence(a, Tail(b))

-----------------------------------------------------------------------------
(* C1 *)

RECURSIVE Concat(_)
\* the concatenation of a sequence of sequences
Concat(texts) == IF texts = <<>> THEN <<>> ELSE Head(texts) \o Concat(Tail(texts))

TextDeltaEvents == SelectSeq(out, LAMBDA e : IsType(e, "text-delta"))

\* C1: response.created, three response.output_text.delta of one item and
\* response.completed yield exactly response-metadata, text-start, three
\* text-delta whose deltas concatenate to the full text, text-end, finish.
C1_TextStreamEvents ==
    (source = <<>> /\ phase # "streaming") =>
        /\ [i \in DOMAIN Translated |-> Translated[i].type] =
               <<"response-metadata", "text-start", "text-delta", "text-delta",
                 "text-delta", "text-end", "finish">>
        /\ Concat([i \in DOMAIN TextDeltaEvents |-> TextDeltaEvents[i].delta]) =
               Concat([i \in 1..3 |-> received[i + 1].value.delta])

-----------------------------------------------------------------------------
(* C2 *)

\* C2: in a stream that ran to end-of-stream (flush was called), a finish
\* event is emitted if and only if a response.completed or response.failed
\* event was received; when emitted it is emitted once and is the last event.
C2_FinishIffTerminal ==
    FlushRan =>
        /\ HasFinish <=> TerminalReceived
        /\ HasFinish =>
            /\ Count(out, LAMBDA e : IsType(e, "finish")) = 1
            /\ out[Len(out)].type = "finish"

-----------------------------------------------------------------------------
(* C3 *)

\* what a vendor chunk contributes to the stream, whatever the state:
\* <<kind, payload>> of the event it is translated to
ChunkKey(c) ==
    IF ~c.success THEN <<"error", c.error>>
    ELSE CASE c.value.type = "response.created" ->
                  <<"response-metadata", c.value.response.id>>
           [] c.value.type = "response.output_text.delta" ->
                  <<"text-delta", c.value.delta>>
           [] IsFunctionCallChunk(c) -> <<"tool-call", c.value.item.call_id>>
           [] OTHER -> <<"none", "">>

EventKey(e) ==
    CASE e.type = "error" -> <<"error", e.error>>
      [] e.type = "response-metadata" -> <<"response-metadata", e.id>>
      [] e.type = "text-delta" -> <<"text-delta", e.delta>>
      [] e.type = "tool-call" -> <<"tool-call", e.toolCallId>>
      [] OTHER -> <<"none", "">>

HasKey(k) == k[1] # "none"

Keys(seq, Key(_)) == SelectSeq([i \in DOMAIN seq |-> Key(seq[i])], HasKey)

\* C3: the normalized events keep the order of the vendor events that
\* produced them; every text-delta is preceded by a text-start with its id;
\* no text-start or text-delta with the id of a text-end follows that text-end.
C3_OrderPreserved ==
    /\ IsSubsequence(Keys(out, EventKey), Keys(received, ChunkKey))
    /\ \A i \in DOMAIN out :
          out[i].type = "text-delta" =>
              \E j \in 1..(i - 1) : out[j].type = "text-start" /\ out[j].id = out[i].id
    /\ \A i \in DOMAIN out :
          out[i].type = "text-end" =>
              \A j \in (i + 1)..Len(out) :
                  ~(out[j].type \in {"text-start", "text-delta"} /\ out[j].id = out[i].id)

\* a closed stream that carried a tool call between two text deltas
C3_Witness ==
    /\ phase = "closed"
    /\ \E i, j, k \in DOMAIN out :
          /\ i < j /\ j < k
          /\ out[i].type = "text-delta"
          /\ out[j].type = "tool-call"
          /\ out[k].type = "text-delta"
    /\ out[Len(out)].type = "text-end"

-----------------------------------------------------------------------------
(* C4 *)

\* C4: a stream that received at least one response.output_text.delta and
\* reached end-of-stream emitted exactly one text-start, immediately before
\* the first text-delta, and exactly one text-end, whatever the item ids
\* (the empty string included).
C4_OneSegmentOpenedAndClosed ==
    (FlushRan /\ \E i \in DOMAIN received : IsDeltaChunk(received[i])) =>
        /\ Count(out, LAMBDA e : IsType(e, "text-start")) = 1
        /\ Count(out, LAMBDA e : IsType(e, "text-end")) = 1
        /\ \A i \in DOMAIN out :
              (out[i].type = "text-delta"
                  /\ \A j \in 1..(i - 1) : out[j].type # "text-delta")
              => (i > 1 /\ out[i - 1].type = "text-start")

-----------------------------------------------------------------------------
(* C5 *)

\* C5 as stated: a finish event of a stream that carried a function_call
\* item, before or after the terminal event, has the reason "tool-calls".
C5_ToolCallsAnywhere ==
    (HasFinish /\ \E i \in DOMAIN received : IsFunctionCallChunk(received[i])) =>
        FinishEvent.finishReason.unified = "tool-calls"

\* C5 (amended): a finish event of a stream that carried a function_call item
\* before its last response.completed / response.failed event has the reason
\* "tool-calls", unless a chunk failed validation after that terminal event
\* (the reason is then "error").
C5_ToolCallsBeforeTerminal ==
    (HasFinish /\ \E i \in 1..(LastTerminal - 1) : IsFunctionCallChunk(received[i])) =>
        FinishEvent.finishReason.unified =
            IF \E j \in (LastTerminal + 1)..Len(received) : IsInvalidChunk(received[j])
            THEN "error" ELSE "tool-calls"

\* a finished stream whose function_call item came before a terminal event
\* with status completed
C5_Witness ==
    /\ HasFinish
    /\ \E i \in 1..(LastTerminal - 1) : IsFunctionCallChunk(received[i])
    /\ received[LastTerminal].value.response.status = "completed"
    /\ FinishEvent.finishReason.unified = "tool-calls"

-----------------------------------------------------------------------------
(* C6 *)

\* C6: every chunk that fails validation produces an error event, and a
\* finish event of a stream that contained such a chunk, at any position,
\* has the reason "error".
C6_InvalidForcesError ==
    /\ Count(out, LAMBDA e : IsType(e, "error")) = Count(received, IsInvalidChunk)
    /\ (HasFinish /\ \E i \in DOMAIN received : IsInvalidChunk(received[i])) =>
           FinishEvent.finishReason.unified = "error"

-----------------------------------------------------------------------------
(* C7 *)

\* C7: a stream whose transport was abandoned before end-of-stream has
\* emitted no finish event and no text-end event.
C7_AbortEmitsNothing ==
    phase = "aborted" =>
        \A i \in DOMAIN out : out[i].type \notin {"finish", "text-end"}

\* abandoned with a text segment open and a terminal event already received
C7_Witness ==
    /\ phase = "aborted"
    /\ Truthy(activeTextId)
    /\ usage # None

-----------------------------------------------------------------------------
(* C8 *)

\* doGenerate returned a result (it did not throw)
Generated == phase = "returned" /\ result # None /\ ~result[1].threw

OutputHasFunctionCall ==
    \E i \in DOMAIN response[1].output : response[1].output[i].type = "function_call"

\* C8: the finish reason is "tool-calls" when the output holds a function_call
\* item or the status is incomplete; otherwise completed gives "stop", failed
\* gives "error" and in_progress / cancelled give "other" with the status as
\* the raw value.
C8_FinishReasonPolicy ==
    Generated =>
        LET status == response[1].status
            reason == result[1].finishReason
        IN  IF OutputHasFunctionCall \/ status = "incomplete"
            THEN reason.unified = "tool-calls"
            ELSE CASE status = "completed" -> reason.unified = "stop"
                   [] status = "failed" -> reason.unified = "error"
                   [] OTHER -> reason.unified = "other" /\ reason.raw = status

\* a failed response with a function_call item was given "tool-calls"
C8_Witness ==
    /\ Generated
    /\ response[1].status = "failed"
    /\ OutputHasFunctionCall
    /\ result[1].finishReason.unified = "tool-calls"

-----------------------------------------------------------------------------
(* C9 *)

\* convertPromptToInput returned
Converted == phase = "returned" /\ input # None

\* what identifies a prompt part in the vendor input: <<kind, payload>>
PartKey(part) ==
    CASE part.type = "text" -> <<"text", part.text>>
      [] part.type = "file" -> <<"file", <<>>>>
      [] part.type = "tool-call" -> <<"function_call", <<part.toolCallId>>>>
      [] part.type = "reasoning" -> <<"reasoning", part.text>>
      [] part.type = "tool-result" -> <<"function_call_output", <<part.toolCallId>>>>
      [] OTHER -> <<"untranslated", <<>>>>

\* the keys of a message's parts, in part order; a system / developer message
\* is one unit
MessageKeys(message) ==
    IF message.role \in {"system", "developer"}
    THEN <<<<"system-text", <<message.role>>>>>>
    ELSE IF message.content.kind = "array"
    THEN [i \in DOMAIN message.content.parts |-> PartKey(message.content.parts[i])]
    ELSE <<>>

ContentPartKey(part) ==
    IF part.type \in {"input_text", "output_text"} THEN <<"text", part.text>>
    ELSE <<"file", <<>>>>

\* the keys a vendor input item carries, in the order it carries them
ItemKeys(item) ==
    CASE item.type = "message" /\ item.role \in {"system", "developer"} ->
             <<<<"system-text", <<item.role>>>>>>
      [] item.type = "message" /\ item.role \notin {"system", "developer"} ->
             [i \in DOMAIN item.content |-> ContentPartKey(item.content[i])]
      [] item.type = "function_call" -> <<<<"function_call", <<item.call_id>>>>>>
      [] item.type = "reasoning" -> <<<<"reasoning", item.content>>>>
      [] item.type = "function_call_output" ->
             <<<<"function_call_output", <<item.call_id>>>>>>

\* C9: the vendor input carries what the prompt's parts were translated to in
\* the order of the messages and, within a message, in the order of its
\* parts; so the text of an assistant message comes before the function_call
\* or reasoning item of a later part of that message.
C9_PromptOrderPreserved ==
    Converted =>
        IsSubsequence(Concat([i \in DOMAIN input[1] |-> ItemKeys(input[1][i])]),
                      Concat([i \in DOMAIN prompt[1] |-> MessageKeys(prompt[1][i])]))

-----------------------------------------------------------------------------
(* C10 *)

\* the message has a text part, or a string content, that is not empty
HasNonEmptyText(message) ==
    IF message.content.kind = "array"
    THEN \E i \in DOMAIN message.content.parts :
             /\ message.content.parts[i].type = "text"
             /\ message.content.parts[i].text # <<>>
    ELSE message.content.text # <<>>

\* C10: a system or developer message without any non-empty text yields no
\* vendor input item: there are no more system (developer) items than system
\* (developer) messages that have a non-empty text.
C10_EmptySystemTextDropped ==
    Converted =>
        \A role \in {"system", "developer"} :
            Count(input[1], LAMBDA item : item.type = "message" /\ item.role = role)
                <= Count(prompt[1], LAMBDA message :
                             message.role = role /\ HasNonEmptyText(message))

-----------------------------------------------------------------------------
(* C11 *)

\* the parts of a message whose content is an array
ContentParts(message) ==
    IF message.content.kind = "array" THEN message.content.parts ELSE <<>>

\* number of parts of the given type in the user / assistant messages
ChatParts(type) ==
    Cardinality({<<i, j>> \in (DOMAIN prompt[1]) \X (1..MaxParts) :
                    /\ prompt[1][i].role \in {"user", "assistant"}
                    /\ j \in DOMAIN ContentParts(prompt[1][i])
                    /\ ContentParts(prompt[1][i])[j].type = type})

HasTextOrFile(message) ==
    \E j \in DOMAIN ContentParts(message) :
        ContentParts(message)[j].type \in {"text", "file"}

\* C11: the user / assistant messages of a prompt yield one function_call
\* item per tool-call part, one reasoning item per reasoning part and, per
\* role, one message item for each message that has at least one text or
\* file part and none for the others.
C11_ItemsPerPart ==
    Converted =>
        /\ Count(input[1], LAMBDA item : item.type = "function_call")
               = ChatParts("tool-call")
        /\ Count(input[1], LAMBDA item : item.type = "reasoning")
               = ChatParts("reasoning")
        /\ \A role \in {"user", "assistant"} :
              Count(input[1], LAMBDA item : item.type = "message" /\ item.role = role)
                  = Count(prompt[1], LAMBDA message :
                              message.role = role /\ HasTextOrFile(message))

\* an assistant message of one tool-call part and no text became exactly one
\* function_call item
C11_Witness ==
    /\ Converted
    /\ Len(prompt[1]) = 1
    /\ prompt[1][1].role = "assistant"
    /\ ContentParts(prompt[1][1]) = <<ToolCallPart>>
    /\ Len(input[1]) = 1
    /\ input[1][1].type = "function_call"
    /\ input[1][1].call_id = ToolCallPart.toolCallId

-----------------------------------------------------------------------------
(* C12 *)

\* the call ids of the parts of a tool message that are not approval
\* responses, in part order
ResultCallIds(message) ==
    LET results == SelectSeq(ContentParts(message),
                             LAMBDA part : part.type # "tool-approval-response")
    IN  [j \in DOMAIN results |-> results[j].toolCallId]

FunctionCallOutputs == SelectSeq(input[1], LAMBDA item : item.type = "function_call_output")

\* C12: the function_call_output items of the vendor input are, in order and
\* each with its call id, the parts of the tool messages that are not
\* approval responses: a tool message of n parts of which k are approval
\* responses yields n - k items, and an approval response yields nothing.
C12_ToolResultsOnly ==
    Converted =>
        [j \in DOMAIN FunctionCallOutputs |-> FunctionCallOutputs[j].call_id]
            = Concat([i \in DOMAIN prompt[1] |->
                         IF prompt[1][i].role = "tool"
                         THEN ResultCallIds(prompt[1][i]) ELSE <<>>])

\* a tool message of an approval response followed by a result became the
\* one function_call_output item of the result
C12_Witness ==
    /\ Converted
    /\ Len(prompt[1]) = 1
    /\ prompt[1][1].role = "tool"
    /\ Len(ContentParts(prompt[1][1])) = 2
    /\ ContentParts(prompt[1][1])[1] = ApprovalPart
    /\ ContentParts(prompt[1][1])[2].type = "tool-result"
    /\ Len(input[1]) = 1
    /\ input[1][1].type = "function_call_output"
    /\ input[1][1].call_id = ContentParts(prompt[1][1])[2].toolCallId

-----------------------------------------------------------------------------
(* C13 *)

\* C13: doGenerate throws exactly when the vendor response has an error
\* field, whatever its status and output; what it throws is an APICallError
\* with the vendor's message, the request body and the response, and no
\* content is returned with it.
C13_ErrorFieldThrows ==
    (phase = "returned" /\ result # None) =>
        /\ result[1].threw <=> response[1].error # None
        /\ result[1].threw =>
              /\ result[1].error.name = "APICallError"
              /\ result[1].error.message = response[1].error[1].message
              /\ result[1].error.requestBodyValues = "body"
              /\ result[1].error.responseBody = response[1]
              /\ "content" \notin DOMAIN result[1]

\* a completed response with output and an error field made doGenerate throw
C13_Witness ==
    /\ phase = "returned"
    /\ result # None
    /\ response[1].status = "completed"
    /\ response[1].output # <<>>
    /\ response[1].error # None
    /\ result[1].threw

-----------------------------------------------------------------------------
(* C14 *)

\* the text a reasoning item is to be shown with: its summary when that has
\* text, otherwise its content when that has text, otherwise nothing
ShownText(item) ==
    IF item.summary # None /\ item.summary[1] # <<>> THEN item.summary
    ELSE IF item.content # None /\ item.content[1] # <<>> THEN item.content
    ELSE None

\* the texts to show for the reasoning items of a sequence of output items
ShownTexts(items) ==
    LET shown == SelectSeq(items, LAMBDA item :
                     item.type = "reasoning" /\ ShownText(item) # None)
    IN  [i \in DOMAIN shown |-> ShownText(shown[i])[1]]

\* the texts of the reasoning parts doGenerate returned
GeneratedReasoning ==
    LET parts == SelectSeq(result[1].content, LAMBDA part : part.type = "reasoning")
    IN  [i \in DOMAIN parts |-> parts[i].text]

\* the deltas of the reasoning events a stream emitted
StreamedReasoning ==
    LET events == SelectSeq(out, LAMBDA e : IsType(e, "reasoning-delta"))
    IN  [i \in DOMAIN events |-> events[i].delta]

\* C14: a reasoning item is emitted, by doGenerate and by the stream alike,
\* if and only if its summary or its content is a non-empty text, with the
\* summary when that has text and the content otherwise.
C14_ReasoningIffText ==
    /\ Generated => GeneratedReasoning = ShownTexts(response[1].output)
    /\ phase \in {"streaming", "closed"} =>
           StreamedReasoning =
               ShownTexts([i \in DOMAIN received |-> received[i].value.item])

-----------------------------------------------------------------------------
(* C15 *)

RECURSIVE Alone(_, _)
\* the closure of a doStream call that was handed the chunks, one after the
\* other, with no other call on the instance
Alone(s, chunks) ==
    IF chunks = <<>> \/ s.threw THEN s
    ELSE Alone(transform(variant, includeRawChunks, s, Head(chunks)), Tail(chunks))

\* the same call run to the phase it is in
AloneTo(chunks, callPhase) ==
    IF callPhase \in {"closed", "flush-threw"}
    THEN flush(variant, Alone(InitState, chunks))
    ELSE Alone(InitState, chunks)

\* C15: each of two doStream calls on one model instance, served in any
\* interleaving, has emitted the events (and holds the closure) of the same
\* call run alone on the chunks it received.
C15_CallsIndependent ==
    \A c \in DOMAIN calls :
        calls[c].state = AloneTo(calls[c].received, calls[c].phase)

\* both calls ran to the end, the runtime went back and forth between them,
\* each opened a text segment of its own and they emitted different events
C15_Witness ==
    /\ calls # <<>>
    /\ alternations = 2
    /\ \A c \in CallIds :
          /\ calls[c].phase = "closed"
          /\ Len(calls[c].received) = MaxCallChunks
          /\ \E i \in DOMAIN calls[c].state.out :
                calls[c].state.out[i].type = "text-end"
    /\ calls[1].state.out # calls[2].state.out

-----------------------------------------------------------------------------
(* C16 *)

IsIgnoredChunk(c) ==
    /\ c.success
    /\ c.value.type \in {"response.in_progress", "response.content_part.added",
                         "response.content_part.done", "response.output_text.done"}

\* C16: a step in which the stream receives response.in_progress,
\* response.content_part.added, response.content_part.done or
\* response.output_text.done emits nothing but the raw echo (when raw chunks
\* are asked for) and leaves the closure as it was; in particular
\* response.output_text.done does not close the open text segment.
C16_IgnoredEventsInert ==
    [][(Len(received') = Len(received) + 1 /\ IsIgnoredChunk(received'[Len(received')]))
           => /\ UNCHANGED <<responseId, sawToolCall, usage, finishReason,
                             activeTextId, threw>>
              /\ out' = IF includeRawChunks
                        THEN Append(out, [type |-> "raw",
                                          rawValue |-> received'[Len(received')].rawValue])
                        ELSE out
              /\ phase' = "streaming"]_vars

\* the stream received response.output_text.done while a text segment was
\* open, and the segment is still open and nothing was emitted for the event
C16_Witness ==
    /\ phase = "streaming"
    /\ ~includeRawChunks
    /\ Len(received) >= 2
    /\ received[Len(received)].success
    /\ received[Len(received)].value.type = "response.output_text.done"
    /\ Truthy(activeTextId)
    /\ out[Len(out)].type = "text-delta"

-----------------------------------------------------------------------------
(* C17 *)

\* getArgs returned
ArgsReturned == phase # "called" /\ args # None

UnsupportedNames == {UnsupportedOptions[i] : i \in DOMAIN UnsupportedOptions}

\* C17: getArgs returns (it does not fail) with exactly one "unsupported"
\* warning for each of topK, stopSequences, presencePenalty,
\* frequencyPenalty, seed, responseFormat that is set and none for one that
\* is not; none of them is a field of the request body; the warnings are in
\* the result of doGenerate and in the stream-start event of doStream.
C17_UnsupportedOptionsWarned ==
    /\ (options # None /\ phase # "called") => args # None
    /\ ArgsReturned =>
        /\ \A name \in UnsupportedNames :
              Count(args[1].warnings, LAMBDA w :
                        w.type = "unsupported" /\ w.feature = name)
                  = IF options[1][name] # None THEN 1 ELSE 0
        /\ DOMAIN args[1].body \cap UnsupportedNames = {}
        /\ Generated => result[1].warnings = args[1].warnings
        /\ phase = "streaming" =>
              out[1] = [type |-> "stream-start", warnings |-> args[1].warnings]

\* a doStream call with topK 0 and seed 0 and none of the other four: its
\* stream-start event holds the two warnings
C17_Witness ==
    /\ ArgsReturned
    /\ phase = "streaming"
    /\ {name \in UnsupportedNames : options[1][name] # None} = {"topK", "seed"}
    /\ [i \in DOMAIN out[1].warnings |-> out[1].warnings[i].feature]
           = <<"topK", "seed">>

-----------------------------------------------------------------------------
(* C18 *)

\* the tools of the call options (none when the list is absent)
OptionTools == IF options[1].tools = None THEN <<>> ELSE options[1].tools[1]

FunctionTools == SelectSeq(OptionTools, LAMBDA tool : tool.type = "function")

\* C18: the tools of the request body are the function tools of the list,
\* in order; they are undefined exactly when the list has no function tool;
\* a providerTools warning is there exactly when the list holds a tool that
\* is not a function tool.
C18_FunctionToolsOnly ==
    ArgsReturned =>
        /\ args[1].body.tools = None <=> FunctionTools = <<>>
        /\ args[1].body.tools # None =>
              /\ Len(args[1].body.tools[1]) = Len(FunctionTools)
              /\ \A i \in DOMAIN FunctionTools :
                    /\ args[1].body.tools[1][i].type = "function"
                    /\ args[1].body.tools[1][i].function.name = FunctionTools[i].name
        /\ (\E i \in DOMAIN OptionTools : OptionTools[i].type # "function")
              <=> (\E i \in DOMAIN args[1].warnings :
                      /\ args[1].warnings[i].type = "unsupported"
                      /\ args[1].warnings[i].feature = "providerTools")

\* a list of a provider tool followed by a function tool: the body holds the
\* function tool alone and the warning is there
C18_Witness ==
    /\ ArgsReturned
    /\ Len(OptionTools) = 2
    /\ OptionTools[1].type = "provider"
    /\ OptionTools[2].type = "function"
    /\ args[1].body.tools # None
    /\ Len(args[1].body.tools[1]) = 1
    /\ args[1].warnings # <<>>
    /\ args[1].warnings[Len(args[1].warnings)].feature = "providerTools"

-----------------------------------------------------------------------------
(* C19 *)

IsCreatedChunk(c) == c.success /\ c.value.type = "response.created"

CreatedReceived == \E i \in DOMAIN received : IsCreatedChunk(received[i])

\* the response id of the last response.created received (when one was)
CreatedId ==
    LET last == CHOOSE i \in DOMAIN received :
                    /\ IsCreatedChunk(received[i])
                    /\ \A j \in DOMAIN received : IsCreatedChunk(received[j]) => j <= i
    IN  received[last].value.response.id

\* C19: at the end of a stream that received a terminal event, flush does
\* not fail and emits the finish event; that event carries the response id
\* as provider metadata when a response.created event was received, and no
\* provider metadata when none was, whatever id the terminal event carried.
C19_FinishCarriesResponseId ==
    (FlushRan /\ TerminalReceived) =>
        /\ phase = "closed"
        /\ HasFinish
        /\ FinishEvent.providerMetadata =
               IF CreatedReceived
               THEN Some([provider |-> providerName, responseId |-> CreatedId])
               ELSE None

-----------------------------------------------------------------------------
(* C20 *)

ToolCallEvents == SelectSeq(out, LAMBDA e : IsType(e, "tool-call"))

FunctionCallChunks == SelectSeq(received, IsFunctionCallChunk)

\* C20: every response.output_item.added / response.output_item.done event
\* whose item is a function_call has made transform emit, without failing,
\* one tool-call event with the item's call id, name and arguments and the
\* item id as provider metadata: the tool-call events are, in order, those
\* of the function_call events received, repeated items included.
C20_ToolCallPerItemEvent ==
    /\ phase # "transform-threw"
    /\ ToolCallEvents =
           [i \in DOMAIN FunctionCallChunks |->
               LET item == FunctionCallChunks[i].value.item
               IN  [type |-> "tool-call", toolCallId |-> item.call_id,
                    toolName |-> item.name, input |-> item.arguments,
                    providerMetadata |->
                        [provider |-> providerName, itemId |-> item.id]]]

-----------------------------------------------------------------------------
(* C21 *)

\* finishReason ?? { unified: "other", raw: "unknown" }
FallbackReason == [unified |-> "other", raw |-> "unknown"]

\* C21: whenever the closure holds a usage it holds a finish reason too, so
\* no finish event carries the fallback reason other / unknown.
C21_ReasonCapturedWithUsage ==
    /\ usage # None => finishReason # None
    /\ \A i \in DOMAIN out :
          out[i].type = "finish" => out[i].finishReason # FallbackReason

\* a finished stream whose terminal event had the status cancelled: the
\* reason is other, with the status and not "unknown" as its raw value
C21_Witness ==
    /\ phase = "closed"
    /\ HasFinish
    /\ usage # None
    /\ finishReason # None
    /\ FinishEvent.finishReason = [unified |-> "other", raw |-> "cancelled"]

-----------------------------------------------------------------------------
(* C22 *)

DeltaReceived == \E i \in DOMAIN received : IsDeltaChunk(received[i])

\* the item id of the first response.output_text.delta received (when one was)
FirstDeltaItem ==
    LET first == CHOOSE i \in DOMAIN received :
                     /\ IsDeltaChunk(received[i])
                     /\ \A j \in DOMAIN received : IsDeltaChunk(received[j]) => i <= j
    IN  received[first].value.item_id

\* C22: a stream has at most one text segment: there is at most one
\* text-start, every text-delta and the text-end carry the item id of the
\* first response.output_text.delta, whatever item ids the later ones name,
\* and there is no text-end before the end of the stream.
C22_OneTextSegment ==
    /\ Count(out, LAMBDA e : IsType(e, "text-start")) <= 1
    /\ \A i \in DOMAIN out :
          out[i].type \in {"text-start", "text-delta", "text-end"} =>
              DeltaReceived /\ out[i].id = FirstDeltaItem
    /\ \A i \in DOMAIN out :
          out[i].type = "text-end" => FlushRan

-----------------------------------------------------------------------------
(* C23 *)

TerminalChunks2Received == Count(received, IsTerminalChunk) >= 2

\* C23: a stream that received several response.completed / response.failed
\* events and reached its end has emitted exactly one finish event, with the
\* usage of the last of them and the finish reason computed from its status
\* and from whether a function_call item had been received before it.
C23_LastTerminalWins ==
    (FlushRan /\ TerminalChunks2Received) =>
        /\ Count(out, LAMBDA e : IsType(e, "finish")) = 1
        /\ FinishEvent.usage = mapUsage(received[LastTerminal].value.response.usage)
        /\ FinishEvent.finishReason =
               mapFinishReason(received[LastTerminal].value.response.status,
                   \E i \in 1..(LastTerminal - 1) : IsFunctionCallChunk(received[i]))

-----------------------------------------------------------------------------
(* C24 *)

RECURSIVE RunAs(_, _, _)
\* the closure copy v of the class is left with after it was handed the
\* chunks one after the other; a callback that threw ends the stream
RunAs(v, s, chunks) ==
    IF chunks = <<>> \/ s.threw THEN s
    ELSE RunAs(v, transform(v, includeRawChunks, s, Head(chunks)), Tail(chunks))

\* the other copy of the class
OtherVariant == IF variant = "plain" THEN "typed" ELSE "plain"

\* the other copy, run on the chunks this stream received and, when this
\* stream reached its end, to its end
OtherRun ==
    LET s == RunAs(OtherVariant, InitState, received)
    IN  IF FlushRan /\ ~s.threw THEN flush(OtherVariant, s) ELSE s

\* C24: on the chunks a stream received, the other copy of the class emits
\* the same events, and it throws exactly when this one did.
C24_VariantsEquivalent ==
    phase \in {"streaming", "closed", "transform-threw", "flush-threw"} =>
        /\ OtherRun.out = out
        /\ OtherRun.threw = threw

====
